---- MODULE Spec2Model ----
(***************************************************************************)
(* A model of src/fetch.py: the Overpass-to-GeoJSON geometry               *)
(* reconstruction (way stitching, area classification, hole assignment,    *)
(* feature building) and the guards of main.                               *)
(*                                                                         *)
(* Coordinates are pairs <<lon, lat>> of integers.  A coordinate sequence  *)
(* (a Python list of [lon, lat] lists) is a TLA+ sequence of such pairs.   *)
(***************************************************************************)
EXTENDS Integers, Sequences, FiniteSets, TLC

VARIABLES
    pc,              \* position in the function under study
    \* ---- merge_ways_into_rings
    way_geometries,  \* the argument
    remaining,       \* the worklist
    current,         \* the chain being extended
    changed,         \* the inner loop's flag
    rings,           \* closed chains emitted so far
    unclosed,        \* open chains emitted so far
    remIds,          \* history: input index of each entry of remaining
    curIds,          \* history: <<index, reversed>> of the ways in current
    ringIds,         \* history: the curIds of each entry of rings
    unclosedIds,     \* history: the curIds of each entry of unclosed
    startedClosed,   \* history: the ways that were closed when popped to start
                     \* a chain, and whether a remaining way then touched them
    \* ---- is_area
    tags,            \* the argument
    area_result,     \* the value returned
    \* ---- point_in_polygon
    point,           \* the argument point
    ring,            \* the argument ring
    inside,          \* the value returned
    \* ---- build_multipolygon
    members,         \* the argument
    outer_ways,      \* coordinate lists of the members not of role inner
    inner_ways,      \* coordinate lists of the members of role inner
    outer_rings,     \* merge_ways_into_rings(outer_ways): the rings
    outer_unclosed,  \* merge_ways_into_rings(outer_ways): the leftovers
    inner_rings,     \* merge_ways_into_rings(inner_ways): the rings
    polygons,        \* the polygon groups, each [outer, hole, ...]
    inner_idx,       \* position of `for inner in inner_rings` (1-based)
    geometry,        \* the value returned
    assigned,        \* history: per inner ring handled, the set of groups
                     \* it was appended to
    \* ---- elements_to_features
    elements,        \* the argument
    elem_idx,        \* position of `for element in elements` (1-based)
    features,        \* the features accumulated
    skipped,         \* the count of elements without a feature
    \* ---- main
    query_file,      \* the state of query.overpassql
    env_threshold,   \* the environment variable TAP_IN_OSM_DROP_THRESHOLD
    output_file,     \* the state of data.geojson
    endpoint_idx,    \* position of `for endpoint in OVERPASS_ENDPOINTS`
    last_error,      \* fetch_overpass's last_error
    data,            \* the response fetch_overpass returned
    exit_code,       \* <<>> while the process runs, then <<its exit status>>
    message,         \* the last line of the run's report
    contacted,       \* history: the endpoints requested, in order
    file0,           \* history: data.geojson when the run started
    written          \* history: write_geojson was called

mergeVars == <<way_geometries, remaining, current, changed, rings, unclosed,
               remIds, curIds, ringIds, unclosedIds, startedClosed>>
areaVars == <<tags, area_result>>
pipVars == <<point, ring, inside>>
relVars == <<members, outer_ways, inner_ways, outer_rings, outer_unclosed,
             inner_rings, polygons, inner_idx, geometry, assigned>>

convVars == <<elements, elem_idx, features, skipped>>

mainVars == <<query_file, env_threshold, output_file, endpoint_idx,
              last_error, data, exit_code, message, contacted, file0, written>>

vars == <<pc, mergeVars, areaVars, pipVars, relVars, convVars, mainVars>>

notMergeVars == <<areaVars, pipVars, relVars, convVars, mainVars>>
notAreaVars == <<mergeVars, pipVars, relVars, convVars, mainVars>>
notPipVars == <<mergeVars, areaVars, relVars, convVars, mainVars>>
notRelVars == <<mergeVars, areaVars, pipVars, convVars, mainVars>>
notConvVars == <<mergeVars, areaVars, pipVars, relVars, mainVars>>
notMainVars == <<mergeVars, areaVars, pipVars, relVars>>

\* Python's None
None == "None"

\* a JSON null entry of a geometry array
Null == [isNull |-> TRUE]

\* the geometry None of build_multipolygon and element_to_feature
NoGeometry == [type |-> None]

\* the value None returned by element_to_feature
NoFeature == [type |-> None]

(***************************************************************************)
(* Bounds of the model.                                                    *)
(***************************************************************************)
MaxWays == 3     \* ways in one call of merge_ways_into_rings
MaxTotal == 7    \* points in all ways of one call together
MaxTags == 3     \* tags of one element
MaxMembers == 3  \* members of one relation
MaxElems == 2    \* elements of one call of elements_to_features
MaxNew == 9      \* elements with a geometry in one response
MaxBad == 1      \* elements without a geometry in one response
MaxOld == 20     \* features of the existing data.geojson
GridMax == 2     \* ring corners of point_in_polygon lie on (0..GridMax)^2

(***************************************************************************)
(* Sequence helpers (Python list operations).                              *)
(***************************************************************************)
\* list(reversed(s))
Reverse(s) == [i \in 1..Len(s) |-> s[Len(s) + 1 - i]]

\* s[1:]
DropFirst(s) == SubSeq(s, 2, Len(s))

\* s.pop(i) for the 1-based index i: the list without that entry
RemoveAt(s, i) == SubSeq(s, 1, i - 1) \o SubSeq(s, i + 1, Len(s))

\* the set of entries of a sequence
Range(s) == {s[i] : i \in 1..Len(s)}

\* the first and the last point of a coordinate sequence
EndsOf(s) == {s[1], s[Len(s)]}

SamePointLonOnly(a, b) == a[1] = b[1]

\* a[0] == b[0] and a[1] == b[1]
SamePoint(a, b) == a[1] = b[1] /\ a[2] = b[2]

(***************************************************************************)
(* is_closed                                                               *)
(***************************************************************************)
\* the mutant has no `if len(coords) < 4: return False`
is_closedNoLength(coords) ==
    coords[1][1] = coords[Len(coords)][1]
    /\ coords[1][2] = coords[Len(coords)][2]

is_closed(coords) ==
    IF Len(coords) < 4 THEN FALSE
    ELSE coords[1][1] = coords[Len(coords)][1]
         /\ coords[1][2] = coords[Len(coords)][2]

(***************************************************************************)
(* merge_ways_into_rings: the body of the for loop.                        *)
(* AttachKind is the if/elif chain deciding how candidate attaches to      *)
(* current; Attach is the new value of current.                            *)
(***************************************************************************)
AttachKindNoStartStart(cur, candidate) ==
    LET c_start == candidate[1]
        c_end == candidate[Len(candidate)]
        cur_start == cur[1]
        cur_end == cur[Len(cur)]
    IN  IF SamePoint(cur_end, c_start) THEN "end_start"
        ELSE IF SamePoint(cur_end, c_end) THEN "end_end"
        ELSE IF SamePoint(cur_start, c_end) THEN "start_end"
        ELSE "none"

AttachKind(cur, candidate) ==
    LET c_start == candidate[1]
        c_end == candidate[Len(candidate)]
        cur_start == cur[1]
        cur_end == cur[Len(cur)]
    IN  IF SamePoint(cur_end, c_start) THEN "end_start"
        ELSE IF SamePoint(cur_end, c_end) THEN "end_end"
        ELSE IF SamePoint(cur_start, c_end) THEN "start_end"
        ELSE IF SamePoint(cur_start, c_start) THEN "start_start"
        ELSE "none"

AttachNoReverse(cur, candidate, kind) ==
    CASE kind = "end_start" -> cur \o DropFirst(candidate)
      [] kind = "end_end" -> cur \o DropFirst(candidate)
      [] kind = "start_end" -> candidate \o DropFirst(cur)
      [] kind = "start_start" -> candidate \o DropFirst(cur)

Attach(cur, candidate, kind) ==
    CASE kind = "end_start" -> cur \o DropFirst(candidate)
      [] kind = "end_end" -> cur \o DropFirst(Reverse(candidate))
      [] kind = "start_end" -> candidate \o DropFirst(cur)
      [] kind = "start_start" -> Reverse(candidate) \o DropFirst(cur)

\* The for loop: the index of the first candidate of the worklist that
\* attaches to cur, 0 when the loop runs to its end without a break.
FirstAttachIndex(cur, rem) ==
    LET hits == {i \in 1..Len(rem) : AttachKind(cur, rem[i]) # "none"}
    IN  IF hits = {} THEN 0
        ELSE CHOOSE i \in hits : \A j \in hits : i <= j

(***************************************************************************)
(* Inputs of merge_ways_into_rings.  Its only caller, build_multipolygon,  *)
(* passes sequences of at least 2 points.  The stitcher compares points    *)
(* only for equality, so the inputs are enumerated up to a renaming of the *)
(* points: the points of a call appear in the order of PointList.          *)
(***************************************************************************)
PointList == << <<0, 0>>, <<0, 1>>, <<1, 0>>, <<1, 1>> >>

MaxOf(s) == IF s = <<>> THEN 0
            ELSE CHOOSE m \in Range(s) : \A k \in Range(s) : k <= m

Min2(a, b) == IF a < b THEN a ELSE b

RECURSIVE LabelStrings(_)
LabelStrings(n) ==
    IF n = 0 THEN {<<>>}
    ELSE UNION { {Append(s, k) : k \in 1..Min2(MaxOf(s) + 1, Len(PointList))}
                 : s \in LabelStrings(n - 1) }

RECURSIVE SplitWays(_, _)
SplitWays(s, maxWays) ==
    IF s = <<>> THEN {<<>>}
    ELSE IF maxWays = 0 THEN {}
    ELSE UNION { { <<SubSeq(s, 1, k)>> \o rest
                   : rest \in SplitWays(SubSeq(s, k + 1, Len(s)), maxWays - 1) }
                 : k \in 2..Len(s) }

ToPoints(s) == [i \in 1..Len(s) |-> PointList[s[i]]]

\* W is an input: some string of at most MaxTotal points cut into at most
\* MaxWays ways of at least 2 points each
IsMergeInput(W) ==
    \E n \in 0..MaxTotal : \E s \in LabelStrings(n) :
        \E w \in SplitWays(s, MaxWays) :
            W = [i \in 1..Len(w) |-> ToPoints(w[i])]

(***************************************************************************)
(* merge_ways_into_rings, one step per loop iteration.                     *)
(***************************************************************************)
MergeLocalsInit ==
    /\ remaining = <<>>
    /\ current = <<>>
    /\ changed = FALSE
    /\ rings = <<>>
    /\ unclosed = <<>>
    /\ remIds = <<>>
    /\ curIds = <<>>
    /\ ringIds = <<>>
    /\ unclosedIds = <<>>
    /\ startedClosed = <<>>

MergeIdle == way_geometries = <<>> /\ MergeLocalsInit
AreaIdle == tags = <<>> /\ area_result = None
PipIdle == point = None /\ ring = None /\ inside = None
RelLocalsInit ==
    /\ outer_ways = <<>>
    /\ inner_ways = <<>>
    /\ outer_rings = <<>>
    /\ outer_unclosed = <<>>
    /\ inner_rings = <<>>
    /\ polygons = <<>>
    /\ inner_idx = 0
    /\ geometry = NoGeometry
    /\ assigned = <<>>
RelIdle == members = <<>> /\ RelLocalsInit
ConvLocalsInit == elem_idx = 1 /\ features = <<>> /\ skipped = 0
ConvIdle == elements = <<>> /\ ConvLocalsInit
NoFile == [kind |-> "missing"]
Unset == [set |-> FALSE]
NoData == [elements |-> <<>>]
MainLocalsInit ==
    /\ endpoint_idx = 1
    /\ last_error = None
    /\ data = NoData
    /\ exit_code = <<>>
    /\ message = ""
    /\ contacted = <<>>
    /\ written = FALSE
MainIdle ==
    /\ query_file = "ok"
    /\ env_threshold = Unset
    /\ output_file = NoFile
    /\ file0 = NoFile
    /\ MainLocalsInit

InitMerge ==
    /\ pc = "merge_entry"
    /\ IsMergeInput(way_geometries)
    /\ MergeLocalsInit
    /\ AreaIdle
    /\ PipIdle
    /\ RelIdle
    /\ ConvIdle
    /\ MainIdle

\* if not way_geometries: return [], []
MergeEmpty ==
    /\ UNCHANGED notMergeVars
    /\ pc = "merge_entry"
    /\ way_geometries = <<>>
    /\ pc' = "merge_done"
    /\ UNCHANGED mergeVars

\* remaining = [list(wg) for wg in way_geometries if len(wg) >= 2]
MergeBegin ==
    /\ UNCHANGED notMergeVars
    /\ pc = "merge_entry"
    /\ way_geometries # <<>>
    /\ LET keep == SelectSeq([i \in 1..Len(way_geometries) |-> i],
                             LAMBDA i : Len(way_geometries[i]) >= 2)
       IN  /\ remaining' = [k \in 1..Len(keep) |-> way_geometries[keep[k]]]
           /\ remIds' = keep
    /\ pc' = "merge_while"
    /\ UNCHANGED <<way_geometries, current, changed, rings, unclosed,
                   curIds, ringIds, unclosedIds, startedClosed>>

\* while remaining: current = remaining.pop(0); changed = True
MergePop ==
    /\ UNCHANGED notMergeVars
    /\ pc = "merge_while"
    /\ remaining # <<>>
    /\ current' = Head(remaining)
    /\ remaining' = Tail(remaining)
    /\ curIds' = << <<Head(remIds), FALSE>> >>
    /\ remIds' = Tail(remIds)
    /\ changed' = TRUE
    /\ startedClosed' =
         IF is_closed(Head(remaining))
         THEN Append(startedClosed,
                     [id |-> Head(remIds),
                      touched |-> \E i \in 1..Len(Tail(remaining)) :
                                     EndsOf(Tail(remaining)[i])
                                       \cap EndsOf(Head(remaining)) # {}])
         ELSE startedClosed
    /\ pc' = "merge_scan"
    /\ UNCHANGED <<way_geometries, rings, unclosed, ringIds, unclosedIds>>

\* One pass of `while changed` whose for loop breaks at candidate i.
MergeSplice ==
    /\ UNCHANGED notMergeVars
    /\ pc = "merge_scan"
    /\ LET i == FirstAttachIndex(current, remaining)
       IN  /\ i # 0
           /\ LET kind == AttachKind(current, remaining[i])
              IN  /\ current' = Attach(current, remaining[i], kind)
                  /\ curIds' =
                       CASE kind = "end_start" ->
                              Append(curIds, <<remIds[i], FALSE>>)
                         [] kind = "end_end" ->
                              Append(curIds, <<remIds[i], TRUE>>)
                         [] kind = "start_end" ->
                              << <<remIds[i], FALSE>> >> \o curIds
                         [] kind = "start_start" ->
                              << <<remIds[i], TRUE>> >> \o curIds
           /\ remaining' = RemoveAt(remaining, i)
           /\ remIds' = RemoveAt(remIds, i)
    /\ changed' = TRUE
    /\ UNCHANGED <<pc, way_geometries, rings, unclosed, ringIds, unclosedIds,
                   startedClosed>>

\* One pass of `while changed` whose for loop ends without a break, then
\* the closure test: rings.append(current) or unclosed.append(current).
MergeEmit ==
    /\ UNCHANGED notMergeVars
    /\ pc = "merge_scan"
    /\ FirstAttachIndex(current, remaining) = 0
    /\ changed' = FALSE
    /\ IF is_closed(current)
       THEN /\ rings' = Append(rings, current)
            /\ ringIds' = Append(ringIds, curIds)
            /\ UNCHANGED <<unclosed, unclosedIds>>
       ELSE /\ unclosed' = Append(unclosed, current)
            /\ unclosedIds' = Append(unclosedIds, curIds)
            /\ UNCHANGED <<rings, ringIds>>
    /\ pc' = "merge_while"
    /\ UNCHANGED <<way_geometries, remaining, current, remIds, curIds,
                   startedClosed>>

\* the while condition fails: return rings, unclosed
MergeReturn ==
    /\ UNCHANGED notMergeVars
    /\ pc = "merge_while"
    /\ remaining = <<>>
    /\ pc' = "merge_done"
    /\ UNCHANGED mergeVars

NextMerge ==
    \/ MergeEmpty
    \/ MergeBegin
    \/ MergePop
    \/ MergeSplice
    \/ MergeEmit
    \/ MergeReturn

SpecMerge == InitMerge /\ [][NextMerge]_vars

SpecMergeFair == SpecMerge /\ WF_vars(NextMerge)

(***************************************************************************)
(* is_area.  A tag mapping (a Python dict of strings) is a function from   *)
(* the set of its keys; the empty dict is the function with no keys.       *)
(***************************************************************************)
AREA_TAG_KEYS ==
    {"building", "landuse", "natural", "leisure", "amenity", "shop",
     "boundary", "historic", "place", "area:highway", "craft", "office",
     "tourism", "aeroway"}

AREA_TAG_VALUES ==
    {<<"highway", "rest_area">>, <<"highway", "services">>,
     <<"leisure", "track">>, <<"natural", "water">>,
     <<"waterway", "riverbank">>, <<"waterway", "dock">>,
     <<"waterway", "boatyard">>}

\* tags.get(key)
TagGet(t, key) == IF key \in DOMAIN t THEN t[key] ELSE None

is_areaKeysBeforeOverride(t) ==
    IF DOMAIN t = {} THEN FALSE
    ELSE IF TagGet(t, "area") = "yes" THEN TRUE
    ELSE IF \E key \in AREA_TAG_KEYS : key \in DOMAIN t THEN TRUE
    ELSE IF TagGet(t, "area") = "no" THEN FALSE
    ELSE IF \E kv \in AREA_TAG_VALUES : TagGet(t, kv[1]) = kv[2] THEN TRUE
    ELSE FALSE

is_area(t) ==
    IF DOMAIN t = {} THEN FALSE
    ELSE IF TagGet(t, "area") = "yes" THEN TRUE
    ELSE IF TagGet(t, "area") = "no" THEN FALSE
    ELSE IF \E key \in AREA_TAG_KEYS : key \in DOMAIN t THEN TRUE
    ELSE IF \E kv \in AREA_TAG_VALUES : TagGet(t, kv[1]) = kv[2] THEN TRUE
    ELSE FALSE

\* The tag keys and values the inputs are drawn from.
TagKeys == {"area", "building", "highway", "leisure", "natural", "waterway",
            "name"}

TagValues(key) ==
    CASE key = "area" -> {"yes", "no", "maybe"}
      [] key = "building" -> {"yes"}
      [] key = "highway" -> {"rest_area", "services", "residential"}
      [] key = "leisure" -> {"track", "park"}
      [] key = "natural" -> {"water", "wood"}
      [] key = "waterway" -> {"riverbank", "dock", "stream"}
      [] key = "name" -> {"x"}

AllTagValues == UNION {TagValues(k) : k \in TagKeys}

IsTagInput(t) ==
    \E K \in SUBSET TagKeys :
        /\ Cardinality(K) <= MaxTags
        /\ t \in [K -> AllTagValues]
        /\ \A k \in K : t[k] \in TagValues(k)

InitArea ==
    /\ pc = "area_entry"
    /\ IsTagInput(tags)
    /\ area_result = None
    /\ MergeIdle
    /\ PipIdle
    /\ RelIdle
    /\ ConvIdle
    /\ MainIdle

AreaCall ==
    /\ UNCHANGED notAreaVars
    /\ pc = "area_entry"
    /\ area_result' = is_area(tags)
    /\ pc' = "area_done"
    /\ UNCHANGED tags

NextArea == AreaCall

SpecArea == InitArea /\ [][NextArea]_vars

(***************************************************************************)
(* point_in_polygon and ring_centroid.                                     *)
(*                                                                         *)
(* A test point is a triple <<a, b, d>>, d > 0, standing for the point     *)
(* [a/d, b/d]; ring corners are integer pairs.  The code's test            *)
(*     x < (xj - xi) * (y - yi) / (yj - yi) + xi                           *)
(* is evaluated exactly, multiplied through by d and by yj - yi (the       *)
(* inequality turns when yj - yi < 0; yj # yi where the test is reached,   *)
(* since `and` evaluates it only when yi > y differs from yj > y).         *)
(***************************************************************************)
EdgeCrosses(pt, ci, cj) ==
    LET x == pt[1]
        y == pt[2]
        d == pt[3]
        xi == ci[1]
        yi == ci[2]
        xj == cj[1]
        yj == cj[2]
    IN  /\ (yi * d > y) # (yj * d > y)
        /\ IF yj - yi > 0
           THEN (x - xi * d) * (yj - yi) < (xj - xi) * (y - yi * d)
           ELSE (x - xi * d) * (yj - yi) > (xj - xi) * (y - yi * d)

\* the mutant keeps j at n - 1 (no `j = i`)
point_in_polygonFixedJ(pt, r) ==
    LET n == Len(r)
    IN  Cardinality({i \in 1..n : EdgeCrosses(pt, r[i], r[n])}) % 2 = 1

\* inside is toggled once per edge (ring[i], ring[j]) the ray crosses, with
\* j = n - 1 for the first i and j = i - 1 after it.
point_in_polygon(pt, r) ==
    LET n == Len(r)
    IN  Cardinality({i \in 1..n :
            EdgeCrosses(pt, r[i], r[IF i = 1 THEN n ELSE i - 1])}) % 2 = 1

RECURSIVE SumOf(_, _)
SumOf(r, k) == IF r = <<>> THEN 0 ELSE Head(r)[k] + SumOf(Tail(r), k)

\* [sum(lons) / len(lons), sum(lats) / len(lats)], as a rational point
ring_centroid(r) ==
    IF r = <<>> THEN <<0, 0, 1>>
    ELSE <<SumOf(r, 1), SumOf(r, 2), Len(r)>>

\* Inputs of point_in_polygon: strictly convex rings of 3 or 4 corners on
\* the integer grid, closed by repeating the first corner, and test points
\* on the half-integer grid around it.
GridPoints == (0..GridMax) \X (0..GridMax)

Cross(o, a, b) == (a[1] - o[1]) * (b[2] - o[2]) - (a[2] - o[2]) * (b[1] - o[1])

\* corners c (not yet closed) turn the same way at every corner
StrictlyConvex(c) ==
    LET n == Len(c)
        nxt(i) == IF i = n THEN 1 ELSE i + 1
        turn(i) == Cross(c[i], c[nxt(i)], c[nxt(nxt(i))])
    IN  \/ \A i \in 1..n : turn(i) > 0
        \/ \A i \in 1..n : turn(i) < 0

IsRingInput(r) ==
    \E n \in {3, 4} : \E c \in [1..n -> GridPoints] :
        /\ StrictlyConvex(c)
        /\ r = Append(c, c[1])

IsPointInput(pt) ==
    \E a, b \in (-1)..(2 * GridMax + 1) : pt = <<a, b, 2>>

InitPip ==
    /\ pc = "pip_entry"
    /\ IsRingInput(ring)
    /\ IsPointInput(point)
    /\ inside = None
    /\ MergeIdle
    /\ AreaIdle
    /\ RelIdle
    /\ ConvIdle
    /\ MainIdle

PipCall ==
    /\ UNCHANGED notPipVars
    /\ pc = "pip_entry"
    /\ inside' = point_in_polygon(point, ring)
    /\ pc' = "pip_done"
    /\ UNCHANGED <<point, ring>>

NextPip == PipCall

SpecPip == InitPip /\ [][NextPip]_vars

(***************************************************************************)
(* coords_from_geometry: an Overpass geometry array, a sequence of records *)
(* [lat, lon] and Null entries, to a sequence of <<lon, lat>>.             *)
(***************************************************************************)
RECURSIVE coords_from_geometry(_)
coords_from_geometry(geom_array) ==
    IF geom_array = <<>> THEN <<>>
    ELSE IF Head(geom_array) = Null
         THEN coords_from_geometry(Tail(geom_array))
         ELSE << <<Head(geom_array).lon, Head(geom_array).lat>> >>
                \o coords_from_geometry(Tail(geom_array))

(***************************************************************************)
(* merge_ways_into_rings as a function of its argument: the loops of the   *)
(* step actions above, run to their end.                                   *)
(***************************************************************************)
\* while changed: ... (the chain and the worklist when no candidate attaches)
RECURSIVE ExtendChain(_, _)
ExtendChain(cur, rem) ==
    LET i == FirstAttachIndex(cur, rem)
    IN  IF i = 0 THEN [current |-> cur, remaining |-> rem]
        ELSE ExtendChain(Attach(cur, rem[i], AttachKind(cur, rem[i])),
                         RemoveAt(rem, i))

\* while remaining: ...
RECURSIVE MergeLoop(_, _, _)
MergeLoop(rem, rs, us) ==
    IF rem = <<>> THEN [rings |-> rs, unclosed |-> us]
    ELSE LET e == ExtendChain(Head(rem), Tail(rem))
         IN  IF is_closed(e.current)
             THEN MergeLoop(e.remaining, Append(rs, e.current), us)
             ELSE MergeLoop(e.remaining, rs, Append(us, e.current))

merge_ways_into_rings(ways) ==
    IF ways = <<>> THEN [rings |-> <<>>, unclosed |-> <<>>]
    ELSE MergeLoop(SelectSeq(ways, LAMBDA wg : Len(wg) >= 2), <<>>, <<>>)

(***************************************************************************)
(* build_multipolygon.  A member is a record with the keys the Overpass    *)
(* member has: "type", and possibly "role" and "geometry".                 *)
(***************************************************************************)
\* member.get("geometry"), [] standing for a missing or empty one
MemberGeometry(member) ==
    IF "geometry" \in DOMAIN member THEN member.geometry ELSE <<>>

\* member.get("role", "outer")
MemberRole(member) ==
    IF "role" \in DOMAIN member THEN member.role ELSE "outer"

\* the guards of the member loop: a way with a geometry of >= 2 coordinates
MemberUsable(member) ==
    /\ member.type = "way"
    /\ MemberGeometry(member) # <<>>
    /\ Len(coords_from_geometry(MemberGeometry(member))) >= 2

\* for member in members: ... inner_ways.append / outer_ways.append
RECURSIVE PartitionWays(_)
PartitionWays(ms) ==
    IF ms = <<>> THEN [outer |-> <<>>, inner |-> <<>>]
    ELSE LET rest == PartitionWays(Tail(ms))
             m == Head(ms)
             coords == coords_from_geometry(MemberGeometry(m))
         IN  IF ~MemberUsable(m) THEN rest
             ELSE IF MemberRole(m) = "inner"
                  THEN [outer |-> rest.outer, inner |-> <<coords>> \o rest.inner]
                  ELSE [outer |-> <<coords>> \o rest.outer, inner |-> rest.inner]

\* if not outer_rings: the fallback to a line geometry
LineFallback(leftover) ==
    IF leftover # <<>>
    THEN IF Len(leftover) = 1
         THEN [type |-> "LineString", coordinates |-> leftover[1]]
         ELSE [type |-> "MultiLineString", coordinates |-> leftover]
    ELSE NoGeometry

\* polygons = [[ring] for ring in outer_rings]
SeedPolygons(rs) == [g \in 1..Len(rs) |-> <<rs[g]>>]

\* the mutant has no `break`: every containing group takes the hole
AssignInnerNoBreak(polys, inner) ==
    LET centroid == ring_centroid(inner)
        holds == {g \in 1..Len(polys) : point_in_polygon(centroid, polys[g][1])}
    IN  IF holds # {}
        THEN [g \in 1..Len(polys) |->
                 IF g \in holds THEN Append(polys[g], inner) ELSE polys[g]]
        ELSE IF polys # <<>>
             THEN [polys EXCEPT ![1] = Append(polys[1], inner)]
             ELSE polys

\* One iteration of `for inner in inner_rings`: the hole goes to the first
\* group whose outer ring contains its centroid, else to the first group.
AssignInner(polys, inner) ==
    LET centroid == ring_centroid(inner)
        holds == {g \in 1..Len(polys) : point_in_polygon(centroid, polys[g][1])}
    IN  IF holds # {}
        THEN LET g == CHOOSE g \in holds : \A h \in holds : g <= h
             IN  [polys EXCEPT ![g] = Append(polys[g], inner)]
        ELSE IF polys # <<>>
             THEN [polys EXCEPT ![1] = Append(polys[1], inner)]
             ELSE polys

RECURSIVE AssignAll(_, _)
AssignAll(polys, inners) ==
    IF inners = <<>> THEN polys
    ELSE AssignAll(AssignInner(polys, Head(inners)), Tail(inners))

PolygonGeometryAlwaysMulti(polys) ==
    [type |-> "MultiPolygon", coordinates |-> polys]

\* if len(polygons) == 1: Polygon, else MultiPolygon
PolygonGeometry(polys) ==
    IF Len(polys) = 1
    THEN [type |-> "Polygon", coordinates |-> polys[1]]
    ELSE [type |-> "MultiPolygon", coordinates |-> polys]

build_multipolygon(ms) ==
    LET ways == PartitionWays(ms)
        outer == merge_ways_into_rings(ways.outer)
        inner == merge_ways_into_rings(ways.inner)
    IN  IF outer.rings = <<>> THEN LineFallback(outer.unclosed)
        ELSE PolygonGeometry(AssignAll(SeedPolygons(outer.rings), inner.rings))

(***************************************************************************)
(* Inputs of build_multipolygon: member lists over sample members.         *)
(***************************************************************************)
\* the Overpass geometry array of a coordinate list
RawOf(coords) == [i \in 1..Len(coords) |-> [lat |-> coords[i][2], lon |-> coords[i][1]]]

Square(x0, y0, x1, y1) ==
    << <<x0, y0>>, <<x1, y0>>, <<x1, y1>>, <<x0, y1>>, <<x0, y0>> >>

WayMember(role, coords) ==
    [type |-> "way", role |-> role, geometry |-> RawOf(coords)]

MemberSamples ==
    { WayMember("outer", Square(0, 0, 8, 8)),
      WayMember("outer", << <<0, 0>>, <<8, 0>>, <<8, 8>> >>),
      WayMember("outer", << <<0, 0>>, <<0, 8>>, <<8, 8>> >>),
      WayMember("outer", Square(10, 0, 18, 8)),
      [type |-> "way", geometry |-> RawOf(Square(-2, -2, 20, 10))],
      WayMember("", << <<30, 0>>, <<31, 0>> >>),
      WayMember("outer", << <<32, 0>>, <<31, 0>> >>),
      WayMember("inner", Square(2, 2, 4, 4)),
      WayMember("inner", Square(12, 2, 14, 4)),
      WayMember("inner", Square(30, 30, 32, 32)),
      WayMember("inner", << <<5, 5>>, <<7, 5>>, <<7, 7>> >>),
      WayMember("inner", << <<7, 7>>, <<5, 7>>, <<5, 5>> >>),
      [type |-> "node", role |-> "admin_centre"],
      [type |-> "way", role |-> "outer",
       geometry |-> << [lat |-> 0, lon |-> 0], Null >>],
      [type |-> "way", role |-> "outer"] }

IsMemberList(ms) ==
    \E n \in 0..MaxMembers : ms \in [1..n -> MemberSamples]

(***************************************************************************)
(* build_multipolygon, step by step.                                       *)
(***************************************************************************)
InitRelation ==
    /\ pc = "bm_entry"
    /\ IsMemberList(members)
    /\ RelLocalsInit
    /\ MergeIdle
    /\ AreaIdle
    /\ PipIdle
    /\ ConvIdle
    /\ MainIdle

\* the member loop
BmPartition ==
    /\ UNCHANGED notRelVars
    /\ pc = "bm_entry"
    /\ outer_ways' = PartitionWays(members).outer
    /\ inner_ways' = PartitionWays(members).inner
    /\ pc' = "bm_merge"
    /\ UNCHANGED <<members, outer_rings, outer_unclosed, inner_rings,
                   polygons, inner_idx, geometry, assigned>>

\* outer_rings, outer_unclosed = merge_ways_into_rings(outer_ways)
\* inner_rings, _ = merge_ways_into_rings(inner_ways)
BmMerge ==
    /\ UNCHANGED notRelVars
    /\ pc = "bm_merge"
    /\ outer_rings' = merge_ways_into_rings(outer_ways).rings
    /\ outer_unclosed' = merge_ways_into_rings(outer_ways).unclosed
    /\ inner_rings' = merge_ways_into_rings(inner_ways).rings
    /\ pc' = "bm_branch"
    /\ UNCHANGED <<members, outer_ways, inner_ways, polygons, inner_idx,
                   geometry, assigned>>

\* if not outer_rings: return a line geometry or None
BmFallback ==
    /\ UNCHANGED notRelVars
    /\ pc = "bm_branch"
    /\ outer_rings = <<>>
    /\ geometry' = LineFallback(outer_unclosed)
    /\ pc' = "bm_done"
    /\ UNCHANGED <<members, outer_ways, inner_ways, outer_rings,
                   outer_unclosed, inner_rings, polygons, inner_idx, assigned>>

\* polygons = [[ring] for ring in outer_rings]
BmSeed ==
    /\ UNCHANGED notRelVars
    /\ pc = "bm_branch"
    /\ outer_rings # <<>>
    /\ polygons' = SeedPolygons(outer_rings)
    /\ inner_idx' = 1
    /\ pc' = "bm_assign"
    /\ UNCHANGED <<members, outer_ways, inner_ways, outer_rings,
                   outer_unclosed, inner_rings, geometry, assigned>>

\* one iteration of `for inner in inner_rings`
BmAssign ==
    /\ UNCHANGED notRelVars
    /\ pc = "bm_assign"
    /\ inner_idx <= Len(inner_rings)
    /\ polygons' = AssignInner(polygons, inner_rings[inner_idx])
    /\ assigned' = Append(assigned,
                          {g \in 1..Len(polygons) :
                              Len(polygons'[g]) # Len(polygons[g])})
    /\ inner_idx' = inner_idx + 1
    /\ UNCHANGED <<pc, members, outer_ways, inner_ways, outer_rings,
                   outer_unclosed, inner_rings, geometry>>

\* the loop is over: return a Polygon or a MultiPolygon
BmEmit ==
    /\ UNCHANGED notRelVars
    /\ pc = "bm_assign"
    /\ inner_idx > Len(inner_rings)
    /\ geometry' = PolygonGeometry(polygons)
    /\ pc' = "bm_done"
    /\ UNCHANGED <<members, outer_ways, inner_ways, outer_rings,
                   outer_unclosed, inner_rings, polygons, inner_idx, assigned>>

NextRelation ==
    \/ BmPartition
    \/ BmMerge
    \/ BmFallback
    \/ BmSeed
    \/ BmAssign
    \/ BmEmit

SpecRelation == InitRelation /\ [][NextRelation]_vars

(***************************************************************************)
(* element_to_feature.  An element is a record with the keys the Overpass  *)
(* element has (type, id, tags, lat, lon, geometry, center, members,       *)
(* bounds), each possibly missing.                                         *)
(***************************************************************************)
\* element.get(key, default)
ElemGet(e, key, default) == IF key \in DOMAIN e THEN e[key] ELSE default

\* f"{elem_type}/{elem_id}"
FormatId(elem_type, elem_id) == <<elem_type, "/", elem_id>>

\* properties = dict(tags) with "@id" and "@type" set
PropertiesOf(e) ==
    LET t == ElemGet(e, "tags", <<>>)
        elem_type == ElemGet(e, "type", "")
    IN  [k \in DOMAIN t \cup {"@id", "@type"} |->
            IF k = "@id" THEN FormatId(elem_type, ElemGet(e, "id", 0))
            ELSE IF k = "@type" THEN elem_type
            ELSE t[k]]

PointAt(lon, lat) == [type |-> "Point", coordinates |-> <<lon, lat>>]

\* (a + b) / 2, kept as the fraction <<a + b, 2>>
Midpoint(a, b) == <<a + b, 2>>

\* center = element.get("center"); if center: a Point there
CenterFallback(e) ==
    LET center == ElemGet(e, "center", <<>>)
    IN  IF center # <<>> THEN PointAt(center.lon, center.lat) ELSE NoGeometry

NodeGeometry(e) ==
    IF "lat" \in DOMAIN e /\ "lon" \in DOMAIN e
    THEN PointAt(e.lon, e.lat)
    ELSE NoGeometry

WayGeometry(e) ==
    LET geom_array == ElemGet(e, "geometry", <<>>)
        coords == coords_from_geometry(geom_array)
        primary ==
            IF geom_array # <<>> /\ Len(coords) >= 2
            THEN IF is_closed(coords) /\ is_area(ElemGet(e, "tags", <<>>))
                 THEN [type |-> "Polygon", coordinates |-> <<coords>>]
                 ELSE [type |-> "LineString", coordinates |-> coords]
            ELSE NoGeometry
    IN  IF primary # NoGeometry THEN primary ELSE CenterFallback(e)

\* the lines of a route: the coordinates of its way members with a geometry
\* of >= 2 coordinates
RECURSIVE RouteLines(_)
RouteLines(ms) ==
    IF ms = <<>> THEN <<>>
    ELSE LET m == Head(ms)
             coords == coords_from_geometry(MemberGeometry(m))
         IN  IF m.type = "way" /\ MemberGeometry(m) # <<>> /\ Len(coords) >= 2
             THEN <<coords>> \o RouteLines(Tail(ms))
             ELSE RouteLines(Tail(ms))

RelationGeometry(e) ==
    LET rel_type == TagGet(ElemGet(e, "tags", <<>>), "type")
        ms == ElemGet(e, "members", <<>>)
        lines == RouteLines(ms)
        primary ==
            IF rel_type \in {"multipolygon", "boundary"} /\ ms # <<>>
            THEN build_multipolygon(ms)
            ELSE IF rel_type = "route" /\ ms # <<>> /\ lines # <<>>
            THEN IF Len(lines) = 1
                 THEN [type |-> "LineString", coordinates |-> lines[1]]
                 ELSE [type |-> "MultiLineString", coordinates |-> lines]
            ELSE NoGeometry
        b == ElemGet(e, "bounds", <<>>)
    IN  IF primary # NoGeometry THEN primary
        ELSE IF CenterFallback(e) # NoGeometry THEN CenterFallback(e)
        ELSE IF b # <<>>
        THEN PointAt(Midpoint(b.minlon, b.maxlon), Midpoint(b.minlat, b.maxlat))
        ELSE NoGeometry

\* the geometry element_to_feature derives, NoGeometry for None
ElementGeometry(e) ==
    LET elem_type == ElemGet(e, "type", "")
    IN  CASE elem_type = "node" -> NodeGeometry(e)
          [] elem_type = "way" -> WayGeometry(e)
          [] elem_type = "relation" -> RelationGeometry(e)
          [] OTHER -> NoGeometry

\* the mutant has no `if geometry is None: return None`
element_to_featureNoNoneCheck(e) ==
    [type |-> "Feature", geometry |-> ElementGeometry(e),
     properties |-> PropertiesOf(e)]

element_to_feature(e) ==
    IF ElementGeometry(e) = NoGeometry THEN NoFeature
    ELSE [type |-> "Feature", geometry |-> ElementGeometry(e),
          properties |-> PropertiesOf(e)]

(***************************************************************************)
(* Inputs of elements_to_features: element lists over sample elements.     *)
(***************************************************************************)
Tags1(k, v) == [x \in {k} |-> v]
Tags2(k1, v1, k2, v2) == [x \in {k1, k2} |-> IF x = k1 THEN v1 ELSE v2]

Triangle == << <<0, 0>>, <<4, 0>>, <<0, 4>>, <<0, 0>> >>
Fragment == << <<30, 0>>, <<31, 0>> >>
NodeMember == [type |-> "node", role |-> "stop"]

ElementSamples ==
    { [type |-> "node", id |-> 1, lat |-> 7, lon |-> 3, tags |-> Tags1("name", "x")],
      [type |-> "node", id |-> 2, lon |-> 3],
      [type |-> "way", id |-> 3, tags |-> Tags1("building", "yes"),
       geometry |-> RawOf(Triangle)],
      [type |-> "way", id |-> 4, geometry |-> RawOf(Triangle)],
      [type |-> "way", id |-> 5, tags |-> Tags2("area", "no", "building", "yes"),
       geometry |-> RawOf(Triangle)],
      [type |-> "way", id |-> 6, tags |-> Tags1("highway", "residential"),
       geometry |-> RawOf(Fragment)],
      [type |-> "way", id |-> 7, tags |-> Tags1("building", "yes"),
       geometry |-> RawOf(<< <<0, 0>>, <<4, 0>>, <<0, 0>> >>)],
      [type |-> "way", id |-> 8, tags |-> Tags1("natural", "water"),
       geometry |-> RawOf(Square(0, 0, 8, 8))],
      [type |-> "way", id |-> 9, geometry |-> << [lat |-> 1, lon |-> 2], Null >>,
       center |-> [lat |-> 5, lon |-> 6]],
      [type |-> "way", id |-> 10, tags |-> Tags1("building", "yes")],
      [type |-> "way", id |-> 11, geometry |-> << Null, [lat |-> 1, lon |-> 2] >>],
      [type |-> "relation", id |-> 12, tags |-> Tags1("type", "multipolygon"),
       members |-> << WayMember("outer", Square(0, 0, 8, 8)),
                      WayMember("inner", Square(2, 2, 4, 4)) >>],
      [type |-> "relation", id |-> 13, tags |-> Tags1("type", "boundary"),
       members |-> << WayMember("outer", << <<0, 0>>, <<8, 0>>, <<8, 8>> >>),
                      WayMember("outer", Square(10, 0, 18, 8)),
                      WayMember("outer", << <<0, 0>>, <<0, 8>>, <<8, 8>> >>) >>],
      [type |-> "relation", id |-> 14, tags |-> Tags1("type", "multipolygon"),
       members |-> << WayMember("outer", << <<0, 0>>, <<8, 0>>, <<8, 8>> >>),
                      WayMember("inner", Square(2, 2, 4, 4)) >>],
      [type |-> "relation", id |-> 15, tags |-> Tags1("type", "multipolygon"),
       members |-> << NodeMember >>, center |-> [lat |-> 5, lon |-> 6]],
      [type |-> "relation", id |-> 16, tags |-> Tags1("type", "multipolygon"),
       members |-> << >>,
       bounds |-> [minlat |-> 0, minlon |-> 1, maxlat |-> 8, maxlon |-> 4]],
      [type |-> "relation", id |-> 17, tags |-> Tags1("type", "route"),
       members |-> << WayMember("", Fragment), NodeMember,
                      WayMember("", << <<31, 0>>, <<32, 0>> >>) >>],
      [type |-> "relation", id |-> 18, tags |-> Tags1("type", "route"),
       members |-> << WayMember("forward", Fragment) >>],
      [type |-> "relation", id |-> 19, tags |-> Tags1("type", "route"),
       members |-> << NodeMember >>],
      [type |-> "relation", id |-> 20, tags |-> Tags1("type", "restriction"),
       members |-> << WayMember("from", Fragment) >>],
      [type |-> "relation", id |-> 21, tags |-> Tags1("type", "multipolygon"),
       members |-> << NodeMember >>],
      [id |-> 22, lat |-> 7, lon |-> 3] }

IsElementList(es) ==
    \E n \in 0..MaxElems : es \in [1..n -> ElementSamples]

(***************************************************************************)
(* elements_to_features, one step per element.                             *)
(***************************************************************************)
InitConvert ==
    /\ pc = "conv_loop"
    /\ IsElementList(elements)
    /\ ConvLocalsInit
    /\ MergeIdle
    /\ AreaIdle
    /\ PipIdle
    /\ RelIdle
    /\ MainIdle

\* feature = element_to_feature(element); if feature: features.append(feature)
ConvEmit ==
    /\ UNCHANGED notConvVars
    /\ pc = "conv_loop"
    /\ elem_idx <= Len(elements)
    /\ element_to_feature(elements[elem_idx]) # NoFeature
    /\ features' = Append(features, element_to_feature(elements[elem_idx]))
    /\ elem_idx' = elem_idx + 1
    /\ UNCHANGED <<pc, elements, skipped>>

\* else: skipped += 1
ConvSkip ==
    /\ UNCHANGED notConvVars
    /\ pc = "conv_loop"
    /\ elem_idx <= Len(elements)
    /\ element_to_feature(elements[elem_idx]) = NoFeature
    /\ skipped' = skipped + 1
    /\ elem_idx' = elem_idx + 1
    /\ UNCHANGED <<pc, elements, features>>

\* the loop is over: the skipped count is printed, features is returned
ConvReturn ==
    /\ UNCHANGED notConvVars
    /\ pc = "conv_loop"
    /\ elem_idx > Len(elements)
    /\ pc' = "conv_done"
    /\ UNCHANGED convVars

NextConvert ==
    \/ ConvEmit
    \/ ConvSkip
    \/ ConvReturn

SpecConvert == InitConvert /\ [][NextConvert]_vars

(***************************************************************************)
(* The float arithmetic of check_feature_drop.  old_count and new_count    *)
(* are ints; `/` is int true division, correctly rounded to a binary64     *)
(* float; `* 100` is the binary64 product, rounded again; `>` compares the *)
(* float with the int threshold exactly.  A float other than 0 is a        *)
(* record of its sign, its 53 significand bits (most significant first,    *)
(* the first one 1) and the exponent of its first bit.                     *)
(***************************************************************************)
\* the significand bits of a binary64 float
Precision == 53

\* the binary digits of n, most significant first (<<>> for 0)
RECURSIVE BitsOf(_)
BitsOf(n) == IF n = 0 THEN <<>> ELSE Append(BitsOf(n \div 2), n % 2)

\* the number a short digit sequence denotes
RECURSIVE ValueOf(_)
ValueOf(b) ==
    IF b = <<>> THEN 0
    ELSE 2 * ValueOf(SubSeq(b, 1, Len(b) - 1)) + b[Len(b)]

\* 2^k mod den, by repeated squaring
RECURSIVE Pow2Mod(_, _)
Pow2Mod(k, den) ==
    IF k = 0 THEN 1 % den
    ELSE LET h == Pow2Mod(k \div 2, den)
         IN  IF k % 2 = 0 THEN (h * h) % den ELSE (2 * h * h) % den

\* the first n binary digits of r / den after the point (r < den), and the
\* remainder left after them: digit k is floor(2 * (2^(k-1) * r mod den) / den)
DivBits(r, den, n) ==
    [bits |-> [k \in 1..n |->
                  (2 * ((Pow2Mod(k - 1, den) * r) % den)) \div den],
     rem |-> (Pow2Mod(n, den) * r) % den]

\* the count of 0 digits of r / den after the point before its first 1
\* (0 < r < den)
RECURSIVE LeadingZeros(_, _)
LeadingZeros(r, den) ==
    IF 2 * r >= den THEN 0 ELSE 1 + LeadingZeros(2 * r, den)

\* b + 1 on a digit sequence; carry = 1 when the sum has one digit more
Increment(b) ==
    IF \A i \in 1..Len(b) : b[i] = 1
    THEN [mant |-> [i \in 1..Len(b) |-> IF i = 1 THEN 1 ELSE 0], carry |-> 1]
    ELSE LET z == CHOOSE i \in 1..Len(b) :
                      b[i] = 0 /\ \A j \in (i + 1)..Len(b) : b[j] = 1
         IN  [mant |-> [i \in 1..Len(b) |->
                          IF i < z THEN b[i] ELSE IF i = z THEN 1 ELSE 0],
              carry |-> 0]

\* round to nearest, ties to even: bits are the digits from the first 1 on,
\* sticky says that non-zero digits follow them
RoundNearestEven(bits, sticky) ==
    IF Len(bits) <= Precision
    THEN [mant |-> [i \in 1..Precision |->
                       IF i <= Len(bits) THEN bits[i] ELSE 0],
          carry |-> 0]
    ELSE LET kept == SubSeq(bits, 1, Precision)
             guard == bits[Precision + 1]
             rest == sticky \/ \E i \in (Precision + 2)..Len(bits) : bits[i] = 1
         IN  IF guard = 1 /\ (rest \/ kept[Precision] = 1)
             THEN Increment(kept)
             ELSE [mant |-> kept, carry |-> 0]

\* num / den for ints num > 0, den > 0
FloatDiv(num, den) ==
    LET ip == BitsOf(num \div den)
        r0 == num % den
        z == IF ip = <<>> THEN LeadingZeros(r0, den) ELSE 0
        fr == DivBits(r0, den, z + Precision + 1)
        sig == ip \o SubSeq(fr.bits, z + 1, Len(fr.bits))
        r == RoundNearestEven(sig, fr.rem # 0)
    IN  [mant |-> r.mant,
         exp |-> (IF ip = <<>> THEN -(z + 1) ELSE Len(ip) - 1) + r.carry]

\* the digits a multiplication handles at once
LimbWidth == 18

\* v as w binary digits
PadBits(v, w) == [i \in 1..w |-> (v \div 2^(w - i)) % 2]

\* the digits of b * k + carry * 2^Len(b), a limb of digits at a time from
\* the least significant end
RECURSIVE MulBits(_, _, _)
MulBits(b, k, carry) ==
    IF b = <<>> THEN BitsOf(carry)
    ELSE LET w == IF Len(b) < LimbWidth THEN Len(b) ELSE LimbWidth
             t == ValueOf(SubSeq(b, Len(b) - w + 1, Len(b))) * k + carry
         IN  MulBits(SubSeq(b, 1, Len(b) - w), k, t \div 2^w)
                 \o PadBits(t % 2^w, w)

\* f * k for a float f > 0 and an int k > 0
FloatMul(f, k) ==
    LET p == MulBits(f.mant, k, 0)
        r == RoundNearestEven(p, FALSE)
    IN  [mant |-> r.mant, exp |-> f.exp + (Len(p) - Precision) + r.carry]

\* floor(f) for a float f > 0 below 2^30
FloatFloor(f) ==
    IF f.exp < 0 THEN 0 ELSE ValueOf(SubSeq(f.mant, 1, f.exp + 1))

\* f is not an integer (f > 0)
FloatHasFraction(f) ==
    \E i \in 1..Precision : i > f.exp + 1 /\ f.mant[i] = 1

\* drop_pct = ((old_count - new_count) / old_count) * 100
drop_pct(old_count, new_count) ==
    LET d == old_count - new_count
    IN  IF d = 0 THEN [sign |-> 0]
        ELSE IF d > 0
        THEN [sign |-> 1, abs |-> FloatMul(FloatDiv(d, old_count), 100)]
        ELSE [sign |-> -1, abs |-> FloatMul(FloatDiv(-d, old_count), 100)]

\* x > t for a float x and an int t
FloatGreater(x, t) ==
    CASE x.sign = 0 -> 0 > t
      [] x.sign = 1 ->
            \/ FloatFloor(x.abs) > t
            \/ FloatFloor(x.abs) = t /\ FloatHasFraction(x.abs)
      [] OTHER -> FloatFloor(x.abs) < -t

(***************************************************************************)
(* check_feature_drop.  A file is missing, or bytes that are not UTF-8, or *)
(* text that is not JSON, or a JSON value.                                 *)
(***************************************************************************)
BadBytes == [kind |-> "not_utf8"]
BadJson == [kind |-> "not_json"]
JsonFile(v) == [kind |-> "json", value |-> v]
JNull == [json |-> "null"]
JArray(items) == [json |-> "array", items |-> items]
JObject(fields) == [json |-> "object", fields |-> fields]

\* how check_feature_drop ends: "return", "exit" for sys.exit(1), "raise"
\* for an exception it does not catch
check_feature_drop(new_count, file, threshold) ==
    CASE file.kind = "missing" -> "return"
      \* open(..., encoding="utf-8") + json.load: UnicodeDecodeError is
      \* none of JSONDecodeError, KeyError, TypeError
      [] file.kind = "not_utf8" -> "raise"
      [] file.kind = "not_json" -> "return"
      [] OTHER ->
            LET existing == file.value
            IN  \* existing.get on a value that is no dict: AttributeError
                IF existing.json # "object" THEN "raise"
                ELSE IF "features" \notin DOMAIN existing.fields THEN "return"
                \* len(None): TypeError, caught
                ELSE IF existing.fields.features.json # "array" THEN "return"
                ELSE LET old_count == Len(existing.fields.features.items)
                     IN  IF old_count = 0 THEN "return"
                         ELSE IF FloatGreater(drop_pct(old_count, new_count),
                                              threshold)
                         THEN "exit"
                         ELSE "return"

(***************************************************************************)
(* write_geojson                                                           *)
(***************************************************************************)
type_order(osm_type) ==
    CASE osm_type = "node" -> 0
      [] osm_type = "way" -> 1
      [] osm_type = "relation" -> 2
      [] OTHER -> 9

\* int(osm_id_str.split("/", 1)[1]) on the "@id" FormatId built
ParseId(osm_id_str) == osm_id_str[3]

sort_key(feature) ==
    <<type_order(feature.properties["@type"]),
      ParseId(feature.properties["@id"])>>

\* tuple comparison a <= b
KeyLeq(a, b) == a[1] < b[1] \/ (a[1] = b[1] /\ a[2] <= b[2])

\* sorted(features, key=sort_key): stable
RECURSIVE sorted(_)
sorted(fs) ==
    IF fs = <<>> THEN <<>>
    ELSE LET f == fs[Len(fs)]
             before == sorted(SubSeq(fs, 1, Len(fs) - 1))
             k == Cardinality({i \in 1..Len(before) :
                                  KeyLeq(sort_key(before[i]), sort_key(f))})
         IN  SubSeq(before, 1, k) \o <<f>> \o SubSeq(before, k + 1, Len(before))

\* the file write_geojson leaves
write_geojson(fs) ==
    JsonFile(JObject([type |-> "FeatureCollection",
                      features |-> JArray(sorted(fs))]))

(***************************************************************************)
(* fetch_overpass and check_data_freshness                                 *)
(***************************************************************************)
OVERPASS_ENDPOINTS ==
    << "https://overpass-api.de/api/interpreter",
       "https://overpass.kumi.systems/api/interpreter",
       "https://maps.mail.ru/osm/tools/overpass/api/interpreter",
       "https://overpass.private.coffee/api/interpreter" >>

DEFAULT_DROP_THRESHOLD == 50
DEFAULT_MAX_DATA_LAG_HOURS == 48

\* data.get(key) is truthy
Truthy(d, key, empty) == key \in DOMAIN d /\ d[key] # empty

\* a timestamp_osm_base: the empty string, a string fromisoformat rejects,
\* or a time lag_hours before now
NoTimestamp == [kind |-> "empty"]
BadTimestamp == [kind |-> "invalid"]
Timestamp(lag_hours) == [kind |-> "time", lag_hours |-> lag_hours]

\* is_fresh of check_data_freshness
check_data_freshness(d, max_lag_hours) ==
    LET timestamp_str ==
            IF "osm3s" \in DOMAIN d /\ "timestamp_osm_base" \in DOMAIN d.osm3s
            THEN d.osm3s.timestamp_osm_base
            ELSE NoTimestamp
    IN  IF timestamp_str.kind = "empty" THEN TRUE
        ELSE IF timestamp_str.kind = "invalid" THEN TRUE
        ELSE timestamp_str.lag_hours <= max_lag_hours

\* what one endpoint answers: the error urlopen raises, or a body
\* the error, None when the response passes every check of the loop body
\* the mutant has no freshness check
FetchErrorNoFreshness(resp) ==
    CASE resp.kind = "HTTPError" -> "HTTPError"
      [] resp.kind = "URLError" -> "URLError"
      [] resp.kind = "Exception" -> "Exception"
      [] resp.text = "not_json" -> "JSONDecodeError"
      [] Truthy(resp.data, "remark", "")
            /\ ~Truthy(resp.data, "elements", <<>>) -> "remark"
      [] OTHER -> None

FetchError(resp) ==
    CASE resp.kind = "HTTPError" -> "HTTPError"
      [] resp.kind = "URLError" -> "URLError"
      [] resp.kind = "Exception" -> "Exception"
      [] resp.text = "not_json" -> "JSONDecodeError"
      [] Truthy(resp.data, "remark", "")
            /\ ~Truthy(resp.data, "elements", <<>>) -> "remark"
      [] ~check_data_freshness(resp.data, DEFAULT_MAX_DATA_LAG_HOURS) -> "stale"
      [] OTHER -> None

(***************************************************************************)
(* Inputs of main.                                                         *)
(***************************************************************************)
GoodNode(i) == [type |-> "node", id |-> i, lat |-> i, lon |-> -i]
BadNode(i) == [type |-> "node", id |-> i]

\* n nodes with coordinates, ids descending, then m nodes without
MainElements(n, m) ==
    [i \in 1..(n + m) |-> IF i <= n THEN GoodNode(n + 1 - i) ELSE BadNode(i)]

Fresh == [timestamp_osm_base |-> Timestamp(DEFAULT_MAX_DATA_LAG_HOURS)]
Stale == [timestamp_osm_base |-> Timestamp(DEFAULT_MAX_DATA_LAG_HOURS + 1)]

DataSamples ==
    {[elements |-> MainElements(n, m), osm3s |-> Fresh] :
        n \in 0..MaxNew, m \in 0..MaxBad}
    \cup {[remark |-> "runtime error", elements |-> <<>>, osm3s |-> Fresh],
          [remark |-> "runtime error", osm3s |-> Fresh],
          [remark |-> "warning", elements |-> MainElements(1, 0), osm3s |-> Fresh],
          [elements |-> MainElements(1, 0), osm3s |-> Stale],
          [elements |-> MainElements(1, 0)],
          [elements |-> MainElements(1, 0),
           osm3s |-> [timestamp_osm_base |-> BadTimestamp]],
          [osm3s |-> Fresh]}

Responses ==
    {[kind |-> "HTTPError", code |-> 429],
     [kind |-> "HTTPError", code |-> 504],
     [kind |-> "URLError"],
     [kind |-> "Exception"],
     [kind |-> "body", text |-> "not_json"]}
    \cup {[kind |-> "body", text |-> "json", data |-> d] : d \in DataSamples}

\* the collection a run that converted n nodes wrote
OldCollection(n) ==
    write_geojson([i \in 1..n |-> element_to_feature(GoodNode(i))])

ExistingFiles ==
    {NoFile, BadBytes, BadJson, JsonFile(JArray(<<>>)), JsonFile(JObject(<<>>)),
     JsonFile(JObject([features |-> JNull]))}
    \cup {OldCollection(n) : n \in 0..MaxOld}

\* int(text) of a decimal digit string; ok is FALSE for ValueError
DigitValue(c) ==
    CASE c = "0" -> 0 [] c = "1" -> 1 [] c = "2" -> 2 [] c = "3" -> 3
      [] c = "4" -> 4 [] c = "5" -> 5 [] c = "6" -> 6 [] c = "7" -> 7
      [] c = "8" -> 8 [] c = "9" -> 9 [] OTHER -> -1

RECURSIVE DigitsValue(_)
DigitsValue(text) ==
    IF text = <<>> THEN 0
    ELSE 10 * DigitsValue(SubSeq(text, 1, Len(text) - 1))
         + DigitValue(text[Len(text)])

ParseInt(text) ==
    IF text = <<>> \/ \E i \in 1..Len(text) : DigitValue(text[i]) < 0
    THEN [ok |-> FALSE]
    ELSE [ok |-> TRUE, value |-> DigitsValue(text)]

EnvSet(text) == [set |-> TRUE, text |-> text]

\* int(os.environ.get("TAP_IN_OSM_DROP_THRESHOLD", DEFAULT_DROP_THRESHOLD))
ThresholdOf(env) ==
    IF env.set THEN ParseInt(env.text)
    ELSE [ok |-> TRUE, value |-> DEFAULT_DROP_THRESHOLD]

EnvSamples == {Unset, EnvSet(<<"0">>), EnvSet(<<"5", "5">>), EnvSet(<<"x">>)}

(***************************************************************************)
(* main, one step per statement that can end the run.                      *)
(***************************************************************************)
InitMain ==
    /\ pc = "main_entry"
    /\ query_file \in {"missing", "empty", "ok"}
    /\ env_threshold \in EnvSamples
    /\ output_file \in ExistingFiles
    /\ file0 = output_file
    /\ MainLocalsInit
    /\ ConvIdle
    /\ MergeIdle
    /\ AreaIdle
    /\ PipIdle
    /\ RelIdle

\* sys.exit(1), or the traceback of an exception nothing catches
Exit(status, msg) ==
    /\ pc' = "exited"
    /\ exit_code' = <<status>>
    /\ message' = msg

\* read_query: the file is missing or empty
MainQueryFail ==
    /\ UNCHANGED notMainVars
    /\ pc = "main_entry"
    /\ query_file # "ok"
    /\ Exit(1, IF query_file = "missing" THEN "query not found" ELSE "query empty")
    /\ UNCHANGED <<convVars, query_file, env_threshold, output_file,
                   endpoint_idx, last_error, data, contacted, file0, written>>

\* read_query returns the query; fetch_overpass starts its loop
MainQuery ==
    /\ UNCHANGED notMainVars
    /\ pc = "main_entry"
    /\ query_file = "ok"
    /\ pc' = "fetch_loop"
    /\ UNCHANGED <<convVars, mainVars>>

\* one endpoint answers and fails a check of the loop body: continue
FetchContinue ==
    /\ UNCHANGED notMainVars
    /\ pc = "fetch_loop"
    /\ endpoint_idx <= Len(OVERPASS_ENDPOINTS)
    /\ \E resp \in Responses :
          /\ FetchError(resp) # None
          /\ last_error' = FetchError(resp)
    /\ contacted' = Append(contacted, OVERPASS_ENDPOINTS[endpoint_idx])
    /\ endpoint_idx' = endpoint_idx + 1
    /\ UNCHANGED <<pc, convVars, query_file, env_threshold, output_file, data,
                   exit_code, message, file0, written>>

\* one endpoint answers and passes: return data; main takes its elements and
\* calls elements_to_features
FetchReturn ==
    /\ UNCHANGED notMainVars
    /\ pc = "fetch_loop"
    /\ endpoint_idx <= Len(OVERPASS_ENDPOINTS)
    /\ \E resp \in Responses :
          /\ FetchError(resp) = None
          /\ data' = resp.data
          /\ elements' = ElemGet(resp.data, "elements", <<>>)
    /\ contacted' = Append(contacted, OVERPASS_ENDPOINTS[endpoint_idx])
    \* the locals of fetch_overpass end with its frame
    /\ last_error' = None
    /\ pc' = "conv_loop"
    /\ UNCHANGED <<elem_idx, features, skipped, query_file, env_threshold,
                   output_file, endpoint_idx, exit_code, message, file0, written>>

\* a body that is JSON but no object: data.get raises AttributeError outside
\* every try of the loop body
RaisingResponses == {[kind |-> "body", text |-> "json_not_object"]}

\* one endpoint answers with such a body: the run ends with a traceback
FetchRaise ==
    /\ UNCHANGED notMainVars
    /\ pc = "fetch_loop"
    /\ endpoint_idx <= Len(OVERPASS_ENDPOINTS)
    /\ \E resp \in RaisingResponses : last_error' = last_error
    /\ contacted' = Append(contacted, OVERPASS_ENDPOINTS[endpoint_idx])
    /\ Exit(1, "traceback in fetch")
    /\ UNCHANGED <<convVars, query_file, env_threshold, output_file,
                   endpoint_idx, data, file0, written>>

\* the loop ran out of endpoints
FetchAllFailed ==
    /\ UNCHANGED notMainVars
    /\ pc = "fetch_loop"
    /\ endpoint_idx > Len(OVERPASS_ENDPOINTS)
    /\ Exit(1, "all endpoints failed")
    /\ UNCHANGED <<convVars, query_file, env_threshold, output_file,
                   endpoint_idx, last_error, data, contacted, file0, written>>

\* main runs, and elements_to_features has returned
InMain == query_file = "ok" /\ contacted # <<>>

\* if not features: sys.exit(1)
MainZeroFeatures ==
    /\ UNCHANGED notMainVars
    /\ InMain
    /\ pc = "conv_done"
    /\ features = <<>>
    /\ Exit(1, "zero usable features")
    /\ UNCHANGED <<convVars, query_file, env_threshold, output_file,
                   endpoint_idx, last_error, data, contacted, file0, written>>

\* int(...) of the threshold raises, or check_feature_drop raises
MainGuardRaise ==
    /\ UNCHANGED notMainVars
    /\ InMain
    /\ pc = "conv_done"
    /\ features # <<>>
    /\ \/ ~ThresholdOf(env_threshold).ok
       \/ /\ ThresholdOf(env_threshold).ok
          /\ check_feature_drop(Len(features), output_file,
                                ThresholdOf(env_threshold).value) = "raise"
    /\ Exit(1, "traceback")
    /\ UNCHANGED <<convVars, query_file, env_threshold, output_file,
                   endpoint_idx, last_error, data, contacted, file0, written>>

\* check_feature_drop calls sys.exit(1)
MainGuardExit ==
    /\ UNCHANGED notMainVars
    /\ InMain
    /\ pc = "conv_done"
    /\ features # <<>>
    /\ ThresholdOf(env_threshold).ok
    /\ check_feature_drop(Len(features), output_file,
                          ThresholdOf(env_threshold).value) = "exit"
    /\ Exit(1, "safety check failed")
    /\ UNCHANGED <<convVars, query_file, env_threshold, output_file,
                   endpoint_idx, last_error, data, contacted, file0, written>>

\* check_feature_drop returns
MainGuardPass ==
    /\ UNCHANGED notMainVars
    /\ InMain
    /\ pc = "conv_done"
    /\ features # <<>>
    /\ ThresholdOf(env_threshold).ok
    /\ check_feature_drop(Len(features), output_file,
                          ThresholdOf(env_threshold).value) = "return"
    /\ pc' = "main_write"
    /\ UNCHANGED <<convVars, mainVars>>

\* write_geojson(features, OUTPUT_FILE); main returns
MainWrite ==
    /\ UNCHANGED notMainVars
    /\ pc = "main_write"
    /\ output_file' = write_geojson(features)
    /\ written' = TRUE
    /\ Exit(0, "wrote")
    /\ UNCHANGED <<convVars, query_file, env_threshold, endpoint_idx,
                   last_error, data, contacted, file0>>

NextMain ==
    \/ MainQueryFail
    \/ MainQuery
    \/ FetchContinue
    \/ FetchReturn
    \/ FetchRaise
    \/ FetchAllFailed
    \/ ConvEmit
    \/ ConvSkip
    \/ ConvReturn
    \/ MainZeroFeatures
    \/ MainGuardRaise
    \/ MainGuardExit
    \/ MainGuardPass
    \/ MainWrite

SpecMain == InitMain /\ [][NextMain]_vars

(***************************************************************************)
(* Properties of merge_ways_into_rings.                                    *)
(***************************************************************************)
OutChains == rings \o unclosed
OutIds == ringIds \o unclosedIds

\* the way a chain member stands for, in the direction it was spliced in
Oriented(m) == IF m[2] THEN Reverse(way_geometries[m[1]])
               ELSE way_geometries[m[1]]

\* the end-to-end concatenation of ways: each way after the first gives up
\* its first point, which is the last point of what precedes it
RECURSIVE JoinWays(_)
JoinWays(ms) ==
    IF Len(ms) = 1 THEN Oriented(ms[1])
    ELSE JoinWays(SubSeq(ms, 1, Len(ms) - 1)) \o DropFirst(Oriented(ms[Len(ms)]))

IsInfix(w, chain) ==
    \E k \in 0..(Len(chain) - Len(w)) : SubSeq(chain, k + 1, k + Len(w)) = w

PointsOf(seqs) == UNION {Range(seqs[i]) : i \in 1..Len(seqs)}

\* the places <<chain, position>> of the output where input way k was consumed
PlacesOf(k) ==
    {p \in UNION {{<<c, j>> : j \in 1..Len(OutIds[c])} : c \in 1..Len(OutIds)}
       : OutIds[p[1]][p[2]][1] = k}

\* C1: on return, every input way (all have >= 2 points) is consumed exactly
\* once: it has exactly one place in exactly one output chain, that chain is
\* the end-to-end concatenation of its ways (each forward or reversed), so the
\* way appears in it forward or reversed, and the output chains have exactly
\* the points of the input (none created, none lost).
C1_EveryWayConsumedOnce ==
    pc = "merge_done" =>
        /\ \A k \in 1..Len(way_geometries) :
              /\ Len(way_geometries[k]) >= 2
              /\ Cardinality(PlacesOf(k)) = 1
              /\ \A p \in PlacesOf(k) :
                    \/ IsInfix(way_geometries[k], OutChains[p[1]])
                    \/ IsInfix(Reverse(way_geometries[k]), OutChains[p[1]])
        /\ Len(OutIds) = Len(OutChains)
        /\ \A c \in 1..Len(OutChains) :
              /\ OutIds[c] # <<>>
              /\ OutChains[c] = JoinWays(OutIds[c])
              /\ Range(OutChains[c])
                   = UNION {Range(way_geometries[OutIds[c][j][1]])
                            : j \in 1..Len(OutIds[c])}
        /\ PointsOf(OutChains) = PointsOf(way_geometries)

C1_Witness ==
    /\ pc = "merge_done"
    /\ Len(OutChains) = 2
    /\ \E c \in 1..Len(OutIds) :
          /\ Len(OutIds[c]) = 2
          /\ \E j \in 1..2 : OutIds[c][j][2]

\* C9 as stated: every way that is closed when it is popped to start a chain
\* is emitted unchanged, alone, in rings.
C9_ClosedStartEmittedUnchanged ==
    pc = "merge_done" =>
        \A n \in 1..Len(startedClosed) :
            \E c \in 1..Len(rings) :
                /\ rings[c] = way_geometries[startedClosed[n].id]
                /\ ringIds[c] = << <<startedClosed[n].id, FALSE>> >>

\* C9 amended: a way that is closed when it is popped to start a chain is
\* emitted unchanged, alone, in rings exactly when no way then remaining in
\* the worklist has a first or last point equal to its start/end point;
\* otherwise a remaining way is spliced onto it.
C9_ClosedStartUnchangedIffUntouched ==
    pc = "merge_done" =>
        \A n \in 1..Len(startedClosed) :
            LET k == startedClosed[n].id
            IN  /\ Cardinality(PlacesOf(k)) = 1
                /\ \A p \in PlacesOf(k) :
                      IF startedClosed[n].touched
                      THEN /\ Len(OutIds[p[1]]) >= 2
                           /\ OutChains[p[1]] # way_geometries[k]
                      ELSE /\ p[1] <= Len(rings)
                           /\ rings[p[1]] = way_geometries[k]
                           /\ ringIds[p[1]] = << <<k, FALSE>> >>

C9_Witness ==
    /\ pc = "merge_done"
    /\ Len(way_geometries) >= 2
    /\ \E n \in 1..Len(startedClosed) :
          /\ ~startedClosed[n].touched
          /\ startedClosed[n].id = 1
          /\ rings[1] = way_geometries[1]

\* C10: on return no two distinct output chains (rings and unclosed
\* together) share a first-or-last point, and the loop does return.
NoJoinPossible ==
    \A c, d \in 1..Len(OutChains) :
        c # d => EndsOf(OutChains[c]) \cap EndsOf(OutChains[d]) = {}

C10_NoJoinLeftAndTerminates ==
    /\ [](pc = "merge_done" => NoJoinPossible)
    /\ <>(pc = "merge_done")

C10_Witness ==
    /\ pc = "merge_done"
    /\ Len(rings) >= 1
    /\ Len(unclosed) >= 1
    /\ \E c \in 1..Len(OutIds) : Len(OutIds[c]) >= 2

(***************************************************************************)
(* Properties of is_area.                                                  *)
(***************************************************************************)
HasAreaKey(t) == DOMAIN t \cap AREA_TAG_KEYS # {}
HasAreaPair(t) == \E k \in DOMAIN t : <<k, t[k]>> \in AREA_TAG_VALUES
AreaTagIs(t, v) == "area" \in DOMAIN t /\ t["area"] = v

\* C5: is_area decides first-match-wins: no tags -> false; area=yes -> true;
\* area=no -> false even with an area-indicating key or key=value pair;
\* otherwise true iff an AREA_TAG_KEYS key is present or an AREA_TAG_VALUES
\* pair matches.
C5_AreaDecisionOrder ==
    pc = "area_done" =>
        /\ DOMAIN tags = {} => area_result = FALSE
        /\ AreaTagIs(tags, "yes") => area_result = TRUE
        /\ AreaTagIs(tags, "no") => area_result = FALSE
        /\ (DOMAIN tags # {} /\ ~AreaTagIs(tags, "yes") /\ ~AreaTagIs(tags, "no"))
              => area_result = (HasAreaKey(tags) \/ HasAreaPair(tags))
        /\ tags = [k \in {"area", "building"} |->
                      IF k = "area" THEN "no" ELSE "yes"] => area_result = FALSE
        /\ tags = [k \in {"building"} |-> "yes"] => area_result = TRUE
        /\ tags = [k \in {"highway"} |-> "residential"] => area_result = FALSE
        /\ tags = [k \in {"highway"} |-> "rest_area"] => area_result = TRUE

C5_Witness ==
    /\ pc = "area_done"
    /\ AreaTagIs(tags, "no")
    /\ HasAreaKey(tags)
    /\ HasAreaPair(tags)
    /\ area_result = FALSE

(***************************************************************************)
(* Properties of point_in_polygon, against the geometry of a convex ring:  *)
(* SideOf is the side of the directed edge i the point lies on.            *)
(***************************************************************************)
SideOf(pt, r, i) ==
    (r[i + 1][1] - r[i][1]) * (pt[2] - r[i][2] * pt[3])
      - (r[i + 1][2] - r[i][2]) * (pt[1] - r[i][1] * pt[3])

StrictlyInside(pt, r) ==
    \/ \A i \in 1..(Len(r) - 1) : SideOf(pt, r, i) > 0
    \/ \A i \in 1..(Len(r) - 1) : SideOf(pt, r, i) < 0

Between(a, m, b) == (a <= m /\ m <= b) \/ (b <= m /\ m <= a)

OnBoundary(pt, r) ==
    \E i \in 1..(Len(r) - 1) :
        /\ SideOf(pt, r, i) = 0
        /\ Between(r[i][1] * pt[3], pt[1], r[i + 1][1] * pt[3])
        /\ Between(r[i][2] * pt[3], pt[2], r[i + 1][2] * pt[3])

UnitSquare == << <<0, 0>>, <<1, 0>>, <<1, 1>>, <<0, 1>>, <<0, 0>> >>

\* C8 as stated: point_in_polygon returns false for every point on the
\* boundary and every point outside, true only strictly inside (unit
\* square: [0.5, 0.5] -> true, [2, 2] -> false).
C8_FalseOnBoundaryAndOutside ==
    pc = "pip_done" =>
        /\ inside = TRUE => StrictlyInside(point, ring)
        /\ (ring = UnitSquare /\ point = <<1, 1, 2>>) => inside = TRUE
        /\ (ring = UnitSquare /\ point = <<4, 4, 2>>) => inside = FALSE

\* C8 amended: point_in_polygon returns true for every point strictly
\* inside the ring and false for every point outside it (unit square:
\* [0.5, 0.5] -> true, [2, 2] -> false); for a point exactly on the boundary
\* it returns either: on the unit square false at [1, 0.5] (right edge) and
\* [0.5, 1] (top edge), true at [0, 0.5] (left edge), [0.5, 0] (bottom edge)
\* and the corner [0, 0].
C8_TrueInsideFalseOutside ==
    pc = "pip_done" =>
        /\ StrictlyInside(point, ring) => inside = TRUE
        /\ (~StrictlyInside(point, ring) /\ ~OnBoundary(point, ring))
              => inside = FALSE
        /\ (ring = UnitSquare /\ point = <<1, 1, 2>>) => inside = TRUE
        /\ (ring = UnitSquare /\ point = <<4, 4, 2>>) => inside = FALSE
        /\ (ring = UnitSquare /\ point \in {<<2, 1, 2>>, <<1, 2, 2>>})
              => inside = FALSE
        /\ (ring = UnitSquare
              /\ point \in {<<0, 1, 2>>, <<1, 0, 2>>, <<0, 0, 2>>})
              => inside = TRUE

C8_Witness ==
    /\ pc = "pip_done"
    /\ ring = UnitSquare
    /\ point = <<0, 1, 2>>
    /\ OnBoundary(point, ring)
    /\ inside = TRUE

(***************************************************************************)
(* Properties of build_multipolygon.                                       *)
(***************************************************************************)
\* the groups whose outer ring contains the centroid of inner ring k
ContainingGroups(k) ==
    {g \in 1..Len(outer_rings) :
        point_in_polygon(ring_centroid(inner_rings[k]), outer_rings[g])}

\* the group inner ring k belongs to: the first containing one, else the first
ExpectedGroup(k) ==
    IF ContainingGroups(k) = {} THEN 1
    ELSE CHOOSE g \in ContainingGroups(k) : \A h \in ContainingGroups(k) : g <= h

\* the inner rings of group g, in the order they were produced
RECURSIVE HolesOf(_, _)
HolesOf(g, k) ==
    IF k = 0 THEN <<>>
    ELSE IF ExpectedGroup(k) = g
         THEN Append(HolesOf(g, k - 1), inner_rings[k])
         ELSE HolesOf(g, k - 1)

\* C3: whenever an outer ring closed, there is one polygon group per closed
\* outer ring (never one more for an orphan hole), and every closed inner
\* ring is in the hole list of exactly one group: the first whose outer ring
\* contains its centroid by point_in_polygon, or the first group if none.
C3_EveryHoleInExactlyOneGroup ==
    (pc \in {"bm_assign", "bm_done"} /\ outer_rings # <<>>) =>
        /\ Len(polygons) = Len(outer_rings)
        /\ \A g \in 1..Len(polygons) : polygons[g][1] = outer_rings[g]
        /\ \A k \in 1..Len(assigned) : assigned[k] = {ExpectedGroup(k)}
        /\ pc = "bm_done" =>
              /\ Len(assigned) = Len(inner_rings)
              /\ \A g \in 1..Len(polygons) :
                    Tail(polygons[g]) = HolesOf(g, Len(inner_rings))

C3_Witness ==
    /\ pc = "bm_done"
    /\ Len(outer_rings) = 2
    /\ Len(inner_rings) = 1
    /\ assigned = <<{2}>>
    /\ Len(polygons[2]) = 2

\* C7: the geometry returned is decided by the stitching of the outer
\* members.  No outer ring: None without leftover chains, a LineString of the
\* leftover chain when there is one, a MultiLineString over all of them
\* otherwise.  Some outer ring: a Polygon when there is one polygon group, a
\* MultiPolygon over all groups otherwise, each group its outer ring followed
\* by its holes.
C7_GeometryKind ==
    pc = "bm_done" =>
        /\ outer_rings = merge_ways_into_rings(outer_ways).rings
        /\ outer_unclosed = merge_ways_into_rings(outer_ways).unclosed
        /\ (outer_rings = <<>> /\ outer_unclosed = <<>>) => geometry = NoGeometry
        /\ (outer_rings = <<>> /\ Len(outer_unclosed) = 1) =>
              geometry = [type |-> "LineString", coordinates |-> outer_unclosed[1]]
        /\ (outer_rings = <<>> /\ Len(outer_unclosed) > 1) =>
              geometry = [type |-> "MultiLineString", coordinates |-> outer_unclosed]
        /\ Len(outer_rings) = 1 =>
              /\ geometry.type = "Polygon"
              /\ geometry.coordinates = polygons[1]
        /\ Len(outer_rings) > 1 =>
              /\ geometry.type = "MultiPolygon"
              /\ geometry.coordinates = polygons
        /\ outer_rings # <<>> =>
              /\ Len(polygons) = Len(outer_rings)
              /\ \A g \in 1..Len(polygons) :
                    /\ polygons[g][1] = outer_rings[g]
                    /\ Range(Tail(polygons[g])) \subseteq Range(inner_rings)

C7_Witness ==
    /\ pc = "bm_done"
    /\ geometry.type = "MultiPolygon"
    /\ Len(geometry.coordinates) = 2
    /\ \E g \in 1..2 : Len(geometry.coordinates[g]) = 2

(***************************************************************************)
(* Properties of elements_to_features and element_to_feature.              *)
(***************************************************************************)
\* first == last coordinate pair and at least 4 of them
ClosedRing(r) == Len(r) >= 4 /\ r[1] = r[Len(r)]

\* the rings of a geometry: those of a Polygon, of every polygon of a
\* MultiPolygon; none for the other kinds
RingsOfGeometry(g) ==
    CASE g.type = "Polygon" -> Range(g.coordinates)
      [] g.type = "MultiPolygon" ->
            UNION {Range(g.coordinates[i]) : i \in 1..Len(g.coordinates)}
      [] OTHER -> {}

\* the elements handled so far
Processed == SubSeq(elements, 1, elem_idx - 1)

\* the chains merge_ways_into_rings returns for the outer and for the inner
\* members of a relation element
StitchResults(e) ==
    LET ways == PartitionWays(ElemGet(e, "members", <<>>))
    IN  {merge_ways_into_rings(ways.outer), merge_ways_into_rings(ways.inner)}

\* C2: every ring of every Polygon or MultiPolygon geometry emitted is
\* closed (first == last, length >= 4), whether it comes from a way or from
\* a relation; every chain merge_ways_into_rings returns as a ring is
\* closed and every chain it returns as unclosed is not.
C2_EmittedRingsClosed ==
    /\ \A i \in 1..Len(features) :
          \A r \in RingsOfGeometry(features[i].geometry) : ClosedRing(r)
    /\ \A i \in 1..Len(Processed) : \A m \in StitchResults(Processed[i]) :
          /\ \A r \in Range(m.rings) : ClosedRing(r)
          /\ \A u \in Range(m.unclosed) : ~ClosedRing(u)

C2_Witness ==
    /\ pc = "conv_done"
    /\ Len(features) = 2
    /\ features[1].properties["@type"] = "way"
    /\ features[1].geometry.type = "Polygon"
    /\ features[2].properties["@type"] = "relation"
    /\ features[2].geometry.type = "MultiPolygon"

\* the non-None results of element_to_feature over es, in order
RECURSIVE NonNoneFeatures(_)
NonNoneFeatures(es) ==
    IF es = <<>> THEN <<>>
    ELSE IF element_to_feature(Head(es)) = NoFeature
         THEN NonNoneFeatures(Tail(es))
         ELSE <<element_to_feature(Head(es))>> \o NonNoneFeatures(Tail(es))

\* C4: no feature has a null geometry; the features are the non-None
\* results of element_to_feature in the order of their elements; features
\* and skipped elements together are the elements handled, all of them on
\* return.
C4_FeaturesInOrderNoneNull ==
    /\ \A i \in 1..Len(features) :
          /\ features[i].type = "Feature"
          /\ features[i].geometry # NoGeometry
          /\ features[i].geometry.type # None
    /\ features = NonNoneFeatures(Processed)
    /\ Len(features) + skipped = Len(Processed)
    /\ pc = "conv_done" => Len(features) + skipped = Len(elements)

C4_Witness ==
    /\ pc = "conv_done"
    /\ Len(elements) = 2
    /\ skipped = 1
    /\ Len(features) = 1
    /\ features[1] = element_to_feature(elements[2])

(***************************************************************************)
(* Properties of main.                                                     *)
(***************************************************************************)
\* the feature count of the previously persisted collection, 0 when the
\* file holds none
OldCountOf(file) ==
    IF /\ file.kind = "json"
       /\ file.value.json = "object"
       /\ "features" \in DOMAIN file.value.fields
       /\ file.value.fields.features.json = "array"
    THEN Len(file.value.fields.features.items)
    ELSE 0

\* (old_count - new_count) / old_count * 100 > threshold, in exact arithmetic
DropExceeds(old_count, new_count, threshold) ==
    old_count > 0 /\ (old_count - new_count) * 100 > threshold * old_count

\* main has got the feature list from elements_to_features
Converted == InMain /\ pc \in {"conv_done", "main_write", "exited"}

\* one of the two guards fails
GuardFails ==
    \/ features = <<>>
    \/ /\ ThresholdOf(env_threshold).ok
       /\ DropExceeds(OldCountOf(file0), Len(features),
                      ThresholdOf(env_threshold).value)

\* the cases that do not block the write: a drop equal to the threshold, a
\* missing or unparsable existing file, an existing file with 0 features
NoBlockCase ==
    /\ features # <<>>
    /\ ThresholdOf(env_threshold).ok
    /\ \/ file0.kind \in {"missing", "not_utf8", "not_json"}
       \/ /\ file0.kind = "json"
          /\ file0.value.json = "object"
          /\ \/ OldCountOf(file0) = 0
             \/ (OldCountOf(file0) - Len(features)) * 100
                    = ThresholdOf(env_threshold).value * OldCountOf(file0)

\* C6: the output file is written only after both guards pass; when the
\* feature list is empty, or the existing collection has old_count > 0 and
\* the drop exceeds the threshold, the run exits non-zero and the file is
\* left unchanged; a drop equal to the threshold, a missing or unparsable
\* existing file, or an existing file with 0 features does not block the
\* write.
C6_WriteOnlyAfterGuards ==
    /\ written => Converted /\ ~GuardFails
    /\ ~written => output_file = file0
    /\ (Converted /\ pc = "exited" /\ GuardFails) =>
          exit_code = <<1>> /\ output_file = file0
    /\ (Converted /\ pc = "exited" /\ NoBlockCase) =>
          written /\ exit_code = <<0>>

\* the part of C6 the code keeps: no write unless both guards pass, and a
\* failed guard ends the run non-zero with the file unchanged
C6_GuardsBlockWrite ==
    /\ written => Converted /\ ~GuardFails
    /\ ~written => output_file = file0
    /\ (Converted /\ pc = "exited" /\ GuardFails) =>
          exit_code = <<1>> /\ output_file = file0

\* a drop equal to the threshold that ends in sys.exit(1)
C6_EqualDropBlocked ==
    /\ pc = "exited"
    /\ message = "safety check failed"
    /\ OldCountOf(file0) > 0
    /\ (OldCountOf(file0) - Len(features)) * 100
           = ThresholdOf(env_threshold).value * OldCountOf(file0)

(***************************************************************************)
(* Properties of fetch_overpass.                                           *)
(***************************************************************************)
\* the errors after which the loop goes to the next endpoint
FetchFailureKinds ==
    {"HTTPError", "URLError", "Exception", "JSONDecodeError", "remark", "stale"}

\* a response object passes the checks: no remark without elements, and no
\* timestamp older than the configured maximum
PassesChecks(d) ==
    /\ ~(/\ "remark" \in DOMAIN d
         /\ d.remark # ""
         /\ ("elements" \notin DOMAIN d \/ d.elements = <<>>))
    /\ ~(/\ "osm3s" \in DOMAIN d
         /\ "timestamp_osm_base" \in DOMAIN d.osm3s
         /\ d.osm3s.timestamp_osm_base.kind = "time"
         /\ d.osm3s.timestamp_osm_base.lag_hours > DEFAULT_MAX_DATA_LAG_HOURS)

\* fetch_overpass has returned a response
Fetched == pc \in {"conv_loop", "conv_done", "main_write"} \/ elem_idx > 1
               \/ message \in {"zero usable features", "traceback",
                               "safety check failed", "wrote"}

\* the endpoints are requested in list order, each at most once
ContactedInOrder ==
    /\ Len(contacted) <= Len(OVERPASS_ENDPOINTS)
    /\ contacted = SubSeq(OVERPASS_ENDPOINTS, 1, Len(contacted))
    /\ \A i, j \in 1..Len(contacted) : i # j => contacted[i] # contacted[j]

\* one step of the loop: a failed endpoint sends the loop to the next one,
\* a passing response is returned, and nothing is requested once the loop
\* is left
FetchStep ==
    /\ (pc = "fetch_loop" /\ pc' = "fetch_loop" /\ contacted' # contacted) =>
          /\ last_error' \in FetchFailureKinds
          /\ endpoint_idx' = endpoint_idx + 1
          /\ contacted' = Append(contacted, OVERPASS_ENDPOINTS[endpoint_idx])
    /\ (pc = "fetch_loop" /\ pc' = "conv_loop") =>
          /\ PassesChecks(data')
          /\ elements' = ElemGet(data', "elements", <<>>)
          /\ contacted' = Append(contacted, OVERPASS_ENDPOINTS[endpoint_idx])
          \* every endpoint before it failed
          /\ contacted # <<>> => last_error \in FetchFailureKinds
    /\ pc # "fetch_loop" => contacted' = contacted

\* C11: fetch_overpass requests the endpoints in list order, each at most
\* once; after an HTTP error, a network error, invalid JSON, a remark with
\* no elements or stale data it goes to the next endpoint; it returns the
\* response of the first endpoint that passes all checks and requests no
\* later endpoint; when every endpoint fails the run exits non-zero and
\* neither elements_to_features nor the file write is reached.
C11_EndpointFallback ==
    /\ [](/\ ContactedInOrder
          /\ pc = "fetch_loop" =>
                /\ Len(contacted) = endpoint_idx - 1
                /\ contacted # <<>> => last_error \in FetchFailureKinds
          /\ Fetched =>
                /\ PassesChecks(data)
                /\ Len(contacted) = endpoint_idx
          /\ message = "all endpoints failed" =>
                /\ exit_code = <<1>>
                /\ contacted = OVERPASS_ENDPOINTS
                /\ last_error \in FetchFailureKinds
                /\ ~Fetched
                /\ features = <<>> /\ skipped = 0 /\ elem_idx = 1
                /\ ~written /\ output_file = file0)
    /\ [][FetchStep]_vars

\* the third endpoint returned a response after two failures, and the run
\* wrote the file
C11_Witness ==
    /\ written
    /\ Len(contacted) = 3
    /\ endpoint_idx = 3
    /\ "remark" \in DOMAIN data
    /\ "osm3s" \in DOMAIN data
    /\ data.osm3s.timestamp_osm_base.lag_hours = DEFAULT_MAX_DATA_LAG_HOURS

\* every endpoint failed, the last one with stale data
C11_AllFailedWitness ==
    /\ message = "all endpoints failed"
    /\ last_error = "stale"

====
